---- MODULE Spec2Model ----
(***************************************************************************)
(* A model of src/core/connection/connection.ts: one Connection over one   *)
(* socket, its frame-reassembly loop (dataHandler), message dispatch       *)
(* (processMessage), the socket handlers, destroy() and the process-wide   *)
(* connection accounting.                                                  *)
(*                                                                         *)
(* Buffers are sequences of bytes (0..255).  A null or undefined buffer is *)
(* the empty sequence: the code never holds a non-null buffer of length 0  *)
(* (stubBuffer is allocated with data.length >= 1, buffer with             *)
(* sizeOfMessage > 4).                                                     *)
(***************************************************************************)
EXTENDS Integers, Sequences, FiniteSets, TLC

VARIABLES
    \* the parse state of the connection (connection.ts:104-107)
    bytesRead, sizeOfMessage, buffer, stubBuffer,
    \* connection.ts:99
    destroyed,
    \* the socket the connection wraps (net.Socket, connection.ts:125)
    socket,
    \* listeners registered with socket.once (connection.ts:189-191)
    onceHandlers,
    \* decompress() calls whose callback has not run yet (connection.ts:448)
    pending,
    \* module state (connection.ts:22, 45-47)
    _id, connectionAccounting, connectionAccountingSpy, connections,
    \* bytes the server has written and the socket has not delivered yet
    wire,
    \* observation: segments the server sent, in order
    stream,
    \* observation: the data events handled, counted up to ChunkCountCap
    chunks,
    \* observation: the buffers handed to processMessage, in order
    frames,
    \* observation: what the connection emitted, in order
    events,
    \* observation: calls received by the accounting spy
    spyLog,
    \* observation: destroy() calls made, and the destroy callbacks invoked
    destroyCalls, callbackLog,
    \* observation: the outcome of every later new Connection(socket, options)
    constructLog,
    \* observation: the buffers given to socket.write, in order, and what
    \* each write() call returned
    written, writeLog,
    \* observation: whether the last run of the data handler came to its end
    handlerEnded,
    \* observation: the decompress callbacks that ran, each with the frame
    \* it belongs to and what it was given
    decompressLog,
    \* observation: for each run of a socket handler, what it emitted and
    \* whether Connection.connections() held the connection at that point
    teardownLog

vars == <<bytesRead, sizeOfMessage, buffer, stubBuffer, destroyed, socket,
          onceHandlers, pending, _id, connectionAccounting,
          connectionAccountingSpy, connections, wire, stream, chunks, frames,
          events, spyLog, destroyCalls, callbackLog, constructLog, written,
          writeLog, handlerEnded, decompressLog, teardownLog>>

parseVars == <<bytesRead, sizeOfMessage, buffer, stubBuffer>>

apiVars == <<constructLog, written, writeLog>>

----------------------------------------------------------------------------
\* Bounds of the model

\* segments the server writes in one behaviour of Spec and of SpecChunks,
\* where the socket delivers whole segments
MaxSegments == 2

\* segments the server writes in one behaviour of SpecParser, where the
\* socket delivers them in chunks of every size
MaxParserSegments == 1

\* segments the server writes in one behaviour of Spec
MaxLifecycleSegments == 1

\* destroy() calls in one behaviour
MaxDestroy == 2

\* the count of data events is kept up to this value
ChunkCountCap == 2

\* new Connection(socket, options) calls after the first, in one behaviour
MaxConstructions == 2

\* write() calls in one behaviour
MaxWrites == 1

\* where the socket delivers the stream in two sizes of chunk only, a chunk
\* is this many bytes or all the bytes that have arrived
PartialChunk == 5

----------------------------------------------------------------------------
\* Program constants and configuration

\* options.maxBsonMessageSize as configured for the connection
maxBsonMessageSize == 27

\* the defaults of options.keepAliveInitialDelay and options.socketTimeout
DefaultKeepAliveInitialDelay == 300000
DefaultSocketTimeout == 360000

MESSAGE_HEADER_SIZE == 16
OP_REPLY == 1
OP_MSG == 2013
OP_COMPRESSED == 2012

Null == <<>>

----------------------------------------------------------------------------
\* Buffer primitives

Min(a, b) == IF a < b THEN a ELSE b

\* Buffer.alloc(n): n zero bytes
Alloc(n) == [i \in 1..n |-> 0]

\* buf.slice(start, end), with Node's clamping of both ends to the length
Slice(buf, start, end) ==
    SubSeq(buf, Min(start, Len(buf)) + 1, Min(end, Len(buf)))

\* src.copy(target, targetStart): target with src written at targetStart
\* (bytes that do not fit are not copied)
Copy(src, target, targetStart) ==
    [i \in 1..Len(target) |->
        IF i > targetStart /\ i <= targetStart + Len(src)
        THEN src[i - targetStart] ELSE target[i]]

\* the signed 32-bit little-endian integer at offset `at` of buf;
\* data[0] | data[1] << 8 | data[2] << 16 | data[3] << 24 is an int32 in JS
ReadInt32LE(buf, at) ==
    buf[at + 1] + buf[at + 2] * 256 + buf[at + 3] * 65536
    + (IF buf[at + 4] >= 128 THEN buf[at + 4] - 256 ELSE buf[at + 4]) * 16777216

----------------------------------------------------------------------------
\* Message headers (../wireprotocol/shared, not part of the sources: the
\* layout is the one of the wire format, all fields int32 little-endian)

\* parseHeader(message)
parseHeader(message) ==
    [length    |-> ReadInt32LE(message, 0),
     requestId |-> ReadInt32LE(message, 4),
     responseTo |-> ReadInt32LE(message, 8),
     opCode    |-> ReadInt32LE(message, 12)]

\* processMessage raises a RangeError out of the data handler when a header
\* field it reads lies past the end of the message: the fixed header needs
\* 16 bytes, the reads at connection.ts:440-442 need 24
ProcessThrows(message) ==
    \/ Len(message) < MESSAGE_HEADER_SIZE
    \/ /\ parseHeader(message).opCode = OP_COMPRESSED
       /\ Len(message) < MESSAGE_HEADER_SIZE + 8

----------------------------------------------------------------------------
\* dataHandler: the parsing loop.  A loop state is the parse state plus
\* `out`, the calls the loop has made so far (processMessage and
\* conn.emit('parseError')), in order.

ParseStateOf(b, n, s, stub) ==
    [buffer |-> b, bytesRead |-> n, sizeOfMessage |-> s, stubBuffer |-> stub,
     out |-> <<>>, running |-> FALSE]

\* conn.buffer = null; conn.sizeOfMessage = 0; conn.bytesRead = 0;
\* conn.stubBuffer = null
ResetState(st) ==
    [st EXCEPT !.buffer = Null, !.sizeOfMessage = 0, !.bytesRead = 0,
               !.stubBuffer = Null]

FrameOut(bytes) == [kind |-> "frame", bytes |-> bytes, size |-> 0]
ParseErrorOut(size) == [kind |-> "parseError", bytes |-> <<>>, size |-> size]

\* one iteration's result: the loop state, the data left to parse, and
\* whether the handler is left (a return, or an exception of processMessage)
StepResult(st, data, stop) == [st |-> st, data |-> data, stop |-> stop]

\* processMessage(conn, emitBuffer) as the last statement of a branch
CallProcessMessage(st, emitBuffer, data) ==
    StepResult([st EXCEPT !.out = Append(@, FrameOut(emitBuffer))], data,
               ProcessThrows(emitBuffer))

\* AccumulateStep without conn.buffer = null when the message is complete
AccumulateStepKeepBuffer(st, data) ==
    LET remainingBytesToRead == st.sizeOfMessage - st.bytesRead IN
    IF remainingBytesToRead > Len(data)
    THEN StepResult([st EXCEPT !.buffer = Copy(data, st.buffer, st.bytesRead),
                               !.bytesRead = st.bytesRead + Len(data)],
                    Alloc(0), FALSE)
    ELSE LET emitBuffer ==
                 Copy(Slice(data, 0, remainingBytesToRead), st.buffer, st.bytesRead)
         IN  CallProcessMessage([ResetState(st) EXCEPT !.buffer = emitBuffer],
                                emitBuffer,
                                Slice(data, remainingBytesToRead, Len(data)))

\* connection.ts:486-513: bytes of the current message are still missing
AccumulateStep(st, data) ==
    LET remainingBytesToRead == st.sizeOfMessage - st.bytesRead IN
    IF remainingBytesToRead > Len(data)
    THEN StepResult([st EXCEPT !.buffer = Copy(data, st.buffer, st.bytesRead),
                               !.bytesRead = st.bytesRead + Len(data)],
                    Alloc(0), FALSE)
    ELSE LET emitBuffer ==
                 Copy(Slice(data, 0, remainingBytesToRead), st.buffer, st.bytesRead)
         IN  CallProcessMessage(ResetState(st), emitBuffer,
                                Slice(data, remainingBytesToRead, Len(data)))

\* connection.ts:517-541: a stub buffer is held
StubStep(st, data) ==
    IF Len(st.stubBuffer) + Len(data) > 4
    THEN \* prepad the data and parse again
         LET newData == Copy(data,
                             Copy(st.stubBuffer,
                                  Alloc(Len(st.stubBuffer) + Len(data)), 0),
                             Len(st.stubBuffer))
         IN  StepResult(ResetState(st), newData, FALSE)
    ELSE \* newStubBuffer is filled and never stored: conn.stubBuffer is
         \* left as it was
         StepResult(st, Alloc(0), FALSE)

\* RejectLength without the conn.emit('parseError', ...) call
RejectLengthSilently(st, data, size) ==
    StepResult(st, data, TRUE)

\* RejectLength that skips the rejected length prefix and parses on
RejectLengthSkipPrefix(st, data, size) ==
    StepResult([st EXCEPT !.out = Append(@, ParseErrorOut(size))],
               Slice(data, 4, Len(data)), FALSE)

\* RejectLength that holds the rejected data as the stub, for the next chunk
RejectLengthHoldData(st, data, size) ==
    StepResult([st EXCEPT !.out = Append(@, ParseErrorOut(size)),
                          !.stubBuffer = data], data, TRUE)

\* connection.ts:547-561: emit parseError and return, the state untouched
RejectLength(st, data, size) ==
    StepResult([st EXCEPT !.out = Append(@, ParseErrorOut(size))], data, TRUE)

\* connection.ts:564-579: start accumulating a message
StartMessage(st, data, size) ==
    StepResult([st EXCEPT !.buffer = Copy(data, Alloc(size), 0),
                          !.bytesRead = Len(data),
                          !.sizeOfMessage = size,
                          !.stubBuffer = Null],
               Alloc(0), FALSE)

\* connection.ts:580-594: the data is exactly one message
EmitExact(st, data, size) ==
    CallProcessMessage(ResetState(st), data, Alloc(0))

\* RejectSmall without data = SafeBuffer.alloc(0): the loop goes on with the
\* same data
RejectSmallKeepData(st, data, size) ==
    StepResult(ResetState([st EXCEPT !.out = Append(@, ParseErrorOut(size))]),
               data, FALSE)

\* connection.ts:595-616: emit parseError, clear the state, drop the data
RejectSmall(st, data, size) ==
    StepResult(ResetState([st EXCEPT !.out = Append(@, ParseErrorOut(size))]),
               Alloc(0), FALSE)

\* EmitAndContinue that leaves the parsing loop instead of slicing the data
EmitAndDropRest(st, data, size) ==
    CallProcessMessage(ResetState(st), Slice(data, 0, size), Alloc(0))

\* connection.ts:617-628: emit the first sizeOfMessage bytes, parse the rest
EmitAndContinue(st, data, size) ==
    CallProcessMessage(ResetState(st), Slice(data, 0, size),
                       Slice(data, size, Len(data)))

\* HeaderStep with the test of the chunk's length off by one: a chunk of
\* five bytes is kept as the stub too
HeaderStepLongStub(st, data) ==
    IF Len(data) > 5
    THEN LET size == ReadInt32LE(data, 0) IN
         IF size < 0 \/ size > maxBsonMessageSize
         THEN RejectLength(st, data, size)
         ELSE IF size > 4 /\ size < maxBsonMessageSize /\ size > Len(data)
         THEN StartMessage(st, data, size)
         ELSE IF size > 4 /\ size < maxBsonMessageSize /\ size = Len(data)
         THEN EmitExact(st, data, size)
         ELSE IF size <= 4 \/ size > maxBsonMessageSize
         THEN RejectSmall(st, data, size)
         ELSE EmitAndContinue(st, data, size)
    ELSE \* keep the bytes in a new stub buffer
         StepResult([st EXCEPT !.stubBuffer = Copy(data, Alloc(Len(data)), 0)],
                    Alloc(0), FALSE)

\* connection.ts:543-636: no stub is held
HeaderStep(st, data) ==
    IF Len(data) > 4
    THEN LET size == ReadInt32LE(data, 0) IN
         IF size < 0 \/ size > maxBsonMessageSize
         THEN RejectLength(st, data, size)
         ELSE IF size > 4 /\ size < maxBsonMessageSize /\ size > Len(data)
         THEN StartMessage(st, data, size)
         ELSE IF size > 4 /\ size < maxBsonMessageSize /\ size = Len(data)
         THEN EmitExact(st, data, size)
         ELSE IF size <= 4 \/ size > maxBsonMessageSize
         THEN RejectSmall(st, data, size)
         ELSE EmitAndContinue(st, data, size)
    ELSE \* keep the bytes in a new stub buffer
         StepResult([st EXCEPT !.stubBuffer = Copy(data, Alloc(Len(data)), 0)],
                    Alloc(0), FALSE)

\* one iteration of while (data.length > 0)
ParseStep(st, data) ==
    IF st.bytesRead > 0 /\ st.sizeOfMessage > 0
    THEN AccumulateStep(st, data)
    ELSE IF st.stubBuffer # Null /\ Len(st.stubBuffer) > 0
    THEN StubStep(st, data)
    ELSE HeaderStep(st, data)

\* the iterations the model follows one run of the loop for: more than a
\* loop needs that, after merging a held stub, takes at least one byte off
\* the data in every iteration
LoopBudget(st, data) == Len(st.stubBuffer) + Len(data) + 2

\* while (data.length > 0) { ... }, followed for `budget` iterations; a loop
\* that has not ended by then is marked as still running
RECURSIVE ParseLoopWithin(_, _, _)
ParseLoopWithin(st, data, budget) ==
    IF Len(data) = 0
    THEN st
    ELSE IF budget = 0
    THEN [st EXCEPT !.running = TRUE]
    ELSE LET r == ParseStep(st, data) IN
         IF r.stop THEN r.st ELSE ParseLoopWithin(r.st, r.data, budget - 1)

ParseLoop(st, data) == ParseLoopWithin(st, data, LoopBudget(st, data))

----------------------------------------------------------------------------
\* What the server writes: whole segments, which the socket delivers to the
\* data handler in chunks of any size

Int32LE(n) ==
    <<n % 256, (n \div 256) % 256, (n \div 65536) % 256, (n \div 16777216) % 256>>

\* a wire message: the 16-byte header and the body
Message(requestId, opCode, body) ==
    Int32LE(MESSAGE_HEADER_SIZE + Len(body)) \o Int32LE(requestId)
        \o Int32LE(0) \o Int32LE(opCode) \o body

\* the body of an OP_COMPRESSED message
CompressedBody(originalOpCode, uncompressedSize, compressorID, payload) ==
    Int32LE(originalOpCode) \o Int32LE(uncompressedSize) \o <<compressorID>>
        \o payload

SegmentNames ==
    {"Reply", "Msg", "Compressed", "MsgMax", "Negative", "Small", "Big",
     "NegativePrefix"}

Segment(name) ==
    CASE name = "Reply" -> Message(1, OP_REPLY, <<>>)
      [] name = "Msg" -> Message(2, OP_MSG, <<9>>)
      [] name = "Compressed" ->
            Message(3, OP_COMPRESSED, CompressedBody(OP_MSG, 1, 2, <<120>>))
      \* a message of exactly maxBsonMessageSize bytes
      [] name = "MsgMax" ->
            Message(4, OP_MSG, Alloc(maxBsonMessageSize - MESSAGE_HEADER_SIZE))
      \* length prefixes the parser rejects: -1, 4, maxBsonMessageSize + 1
      [] name = "Negative" -> <<255, 255, 255, 255, 0>>
      [] name = "Small" -> Int32LE(4) \o <<0>>
      [] name = "Big" -> Int32LE(maxBsonMessageSize + 1) \o <<0>>
      \* the four bytes of a negative length prefix, and nothing after them
      [] name = "NegativePrefix" -> <<255, 255, 255, 255>>

\* what the decompress callback can be given: an error, or a body
DecompressOutcomes ==
    {[err |-> TRUE, body |-> <<>>]}
        \cup {[err |-> FALSE, body |-> b] : b \in {<<42>>, <<42, 43>>}}

----------------------------------------------------------------------------
\* processMessage

Event(type, seq, opCode, body, detail) ==
    [type |-> type, seq |-> seq, opCode |-> opCode, body |-> body,
     detail |-> detail]

\* msgHeader.opCode === OP_MSG ? BinMsg : Response
ResponseConstructor(opCode) == IF opCode = OP_MSG THEN "BinMsg" ELSE "Response"

\* acc = [frames, events, pending]; the message is the next one handed over
processMessage(acc, message) ==
    LET seq == Len(acc.frames) + 1
        acc1 == [acc EXCEPT !.frames = Append(@, message)]
    IN  IF ProcessThrows(message)
        THEN [acc1 EXCEPT !.events =
                 Append(@, Event("exception", seq, 0, <<>>, "RangeError"))]
        ELSE LET msgHeader == parseHeader(message) IN
             IF msgHeader.opCode # OP_COMPRESSED
             THEN [acc1 EXCEPT !.events =
                      Append(@, Event("message", seq, msgHeader.opCode,
                                      Slice(message, MESSAGE_HEADER_SIZE, Len(message)),
                                      ResponseConstructor(msgHeader.opCode)))]
             ELSE LET index == MESSAGE_HEADER_SIZE IN
                  [acc1 EXCEPT !.pending = @ \cup
                      {[seq |-> seq,
                        opCode |-> ReadInt32LE(message, index),
                        length |-> ReadInt32LE(message, index + 4),
                        compressorID |-> IF Len(message) > index + 8
                                         THEN message[index + 9] ELSE -1,
                        payload |-> Slice(message, index + 9, Len(message))]}]

\* the calls of one run of the parsing loop, applied in order
RECURSIVE Dispatch(_, _)
Dispatch(acc, out) ==
    IF out = <<>>
    THEN acc
    ELSE LET o == Head(out) IN
         Dispatch(IF o.kind = "frame"
                  THEN processMessage(acc, o.bytes)
                  ELSE [acc EXCEPT !.events =
                           Append(@, Event("parseError", 0, o.size, <<>>, "socketHandler"))],
                  Tail(out))

----------------------------------------------------------------------------
\* The connection of the model is the first one constructed: this.id = _id++
\* with _id = 0
ConnId == 0

Init ==
    /\ bytesRead = 0
    /\ sizeOfMessage = 0
    /\ buffer = Null
    /\ stubBuffer = Null
    /\ destroyed = FALSE
    /\ socket = [destroyed |-> FALSE, writable |-> TRUE, closed |-> FALSE,
                 errored |-> FALSE, destroyCalls |-> 0, endCalls |-> 0,
                 endCallbacks |-> <<>>]
    /\ onceHandlers = {"error", "timeout", "close"}
    /\ pending = {}
    /\ _id = ConnId + 1
    \* accounting may have been enabled, with or without a spy, before the
    \* connection was constructed
    /\ connectionAccounting \in BOOLEAN
    /\ connectionAccountingSpy \in IF connectionAccounting THEN BOOLEAN ELSE {FALSE}
    /\ connections = IF connectionAccounting THEN {ConnId} ELSE {}
    /\ spyLog = IF connectionAccountingSpy
                THEN <<[op |-> "addConnection", id |-> ConnId]>> ELSE <<>>
    /\ wire = <<>>
    /\ stream = <<>>
    /\ chunks = 0
    /\ frames = <<>>
    /\ events = <<>>
    /\ destroyCalls = 0
    /\ callbackLog = <<>>
    /\ constructLog = <<>>
    /\ written = <<>>
    /\ writeLog = <<>>
    /\ handlerEnded = TRUE
    /\ decompressLog = <<>>
    /\ teardownLog = <<>>

\* the server writes a segment
ServerSend(name, max) ==
    /\ Len(stream) < max
    /\ ~socket.destroyed
    /\ stream' = Append(stream, name)
    /\ wire' = wire \o Segment(name)
    /\ UNCHANGED <<chunks, bytesRead, sizeOfMessage, buffer, stubBuffer,
                   destroyed, socket, onceHandlers, pending, _id, connectionAccounting,
                   connectionAccountingSpy, connections, frames, events,
                   spyLog, destroyCalls, callbackLog>>
    /\ UNCHANGED <<apiVars, handlerEnded, decompressLog, teardownLog>>

\* socket 'data': the handler runs on the next n bytes of the stream.  A
\* destroyed socket delivers no data; a socket this side has only ended
\* (half-closed) still does.
dataHandler(n) ==
    /\ n \in 1..Len(wire)
    /\ ~socket.destroyed
    /\ LET data == SubSeq(wire, 1, n)
           st == ParseLoop(ParseStateOf(buffer, bytesRead, sizeOfMessage, stubBuffer),
                           data)
           acc == Dispatch([frames |-> frames, events |-> events,
                            pending |-> pending], st.out)
       IN  /\ buffer' = st.buffer
           /\ bytesRead' = st.bytesRead
           /\ sizeOfMessage' = st.sizeOfMessage
           /\ stubBuffer' = st.stubBuffer
           /\ frames' = acc.frames
           /\ events' = acc.events
           /\ pending' = acc.pending
           /\ handlerEnded' = ~st.running
    /\ wire' = SubSeq(wire, n + 1, Len(wire))
    /\ chunks' = Min(chunks + 1, ChunkCountCap)
    /\ UNCHANGED <<destroyed, socket, onceHandlers, _id, connectionAccounting,
                   connectionAccountingSpy, connections, stream, spyLog,
                   destroyCalls, callbackLog>>
    /\ UNCHANGED <<apiVars, decompressLog, teardownLog>>

\* the callback without the comparison of the decompressed length with
\* msgHeader.length
decompressCallbackUnchecked(p, outcome) ==
    IF outcome.err
    THEN Event("error", p.seq, 0, <<>>, "decompress")
    ELSE Event("message", p.seq, p.opCode, outcome.body, ResponseConstructor(p.opCode))

\* connection.ts:448-477: the callback given to decompress
decompressCallback(p, outcome) ==
    IF outcome.err
    THEN Event("error", p.seq, 0, <<>>, "decompress")
    ELSE IF Len(outcome.body) # p.length
    THEN Event("error", p.seq, 0, <<>>, "MongoError")
    ELSE Event("message", p.seq, p.opCode, outcome.body, ResponseConstructor(p.opCode))

\* a decompression completes, at any later time and in any order
DecompressDone(p, outcome) ==
    /\ p \in pending
    /\ pending' = pending \ {p}
    /\ events' = Append(events, decompressCallback(p, outcome))
    /\ UNCHANGED <<bytesRead, sizeOfMessage, buffer, stubBuffer, destroyed,
                   socket, onceHandlers, _id, connectionAccounting,
                   connectionAccountingSpy, connections, wire, stream, chunks, frames,
                   spyLog, destroyCalls, callbackLog>>
    /\ decompressLog' = Append(decompressLog, [seq |-> p.seq, outcome |-> outcome])
    /\ UNCHANGED <<apiVars, handlerEnded, teardownLog>>

\* connection.ts:350-357
deleteConnection(id) ==
    /\ connections' = connections \ {id}
    /\ spyLog' = IF connectionAccountingSpy
                 THEN Append(spyLog, [op |-> "deleteConnection", id |-> id])
                 ELSE spyLog

\* if (connectionAccounting) deleteConnection(conn.id)
Unregister ==
    IF connectionAccounting
    THEN deleteConnection(ConnId)
    ELSE UNCHANGED <<connections, spyLog>>

\* a socket handler has run: what it emitted, if anything, and whether the
\* registry held the connection when it came to emitting, which is after
\* the deleteConnection call
TeardownEntry(handler, emitted) ==
    [handler |-> handler, emitted |-> emitted,
     registered |-> ConnId \in connections']

\* Connection.destroy(options, callback); this.socket is never null
destroy(force, hasCallback) ==
    /\ destroyCalls < MaxDestroy
    /\ destroyCalls' = destroyCalls + 1
    /\ Unregister
    /\ IF force
       THEN /\ socket' = [socket EXCEPT !.destroyed = TRUE, !.writable = FALSE,
                                        !.destroyCalls = @ + 1]
            /\ destroyed' = TRUE
            /\ callbackLog' = IF hasCallback
                              THEN Append(callbackLog,
                                          [call |-> destroyCalls + 1, err |-> FALSE])
                              ELSE callbackLog
       ELSE /\ socket' = [socket EXCEPT !.writable = FALSE, !.endCalls = @ + 1,
                                        !.endCallbacks =
                                            Append(@, [call |-> destroyCalls + 1,
                                                       hasCallback |-> hasCallback])]
            /\ UNCHANGED <<destroyed, callbackLog>>
    /\ UNCHANGED <<bytesRead, sizeOfMessage, buffer, stubBuffer, onceHandlers,
                   pending, _id, connectionAccounting, connectionAccountingSpy,
                   wire, stream, chunks, frames, events>>
    /\ UNCHANGED <<apiVars, handlerEnded, decompressLog, teardownLog>>

\* connection.ts:279-282: the socket runs the callback given to socket.end
endCallback(err) ==
    /\ socket.endCallbacks # <<>>
    /\ LET cb == Head(socket.endCallbacks) IN
       /\ socket' = [socket EXCEPT !.endCallbacks = Tail(@)]
       /\ destroyed' = TRUE
       /\ callbackLog' = IF cb.hasCallback
                         THEN Append(callbackLog, [call |-> cb.call, err |-> err])
                         ELSE callbackLog
    /\ UNCHANGED <<bytesRead, sizeOfMessage, buffer, stubBuffer, onceHandlers,
                   pending, _id, connectionAccounting, connectionAccountingSpy,
                   connections, wire, stream, chunks, frames, events, spyLog,
                   destroyCalls>>
    /\ UNCHANGED <<apiVars, handlerEnded, decompressLog, teardownLog>>

\* socket 'error' (registered with once); the socket that reports an error
\* is destroyed
errorHandler ==
    /\ "error" \in onceHandlers
    /\ ~socket.closed
    /\ onceHandlers' = onceHandlers \ {"error"}
    /\ socket' = [socket EXCEPT !.destroyed = TRUE, !.writable = FALSE,
                                !.errored = TRUE]
    /\ Unregister
    /\ events' = Append(events, Event("error", 0, 0, <<>>, "MongoNetworkError"))
    /\ teardownLog' = Append(teardownLog, TeardownEntry("error", TRUE))
    /\ UNCHANGED <<bytesRead, sizeOfMessage, buffer, stubBuffer, destroyed,
                   pending, _id, connectionAccounting, connectionAccountingSpy,
                   wire, stream, chunks, frames, destroyCalls, callbackLog>>
    /\ UNCHANGED <<apiVars, handlerEnded, decompressLog>>

\* socket 'timeout' (registered with once): the socket was idle, and stays
\* open
timeoutHandler ==
    /\ "timeout" \in onceHandlers
    /\ ~socket.destroyed
    /\ onceHandlers' = onceHandlers \ {"timeout"}
    /\ Unregister
    /\ events' = Append(events, Event("timeout", 0, 0, <<>>, "MongoNetworkError"))
    /\ teardownLog' = Append(teardownLog, TeardownEntry("timeout", TRUE))
    /\ UNCHANGED <<bytesRead, sizeOfMessage, buffer, stubBuffer, destroyed,
                   socket, pending, _id, connectionAccounting,
                   connectionAccountingSpy, wire, stream, chunks, frames, destroyCalls,
                   callbackLog>>
    /\ UNCHANGED <<apiVars, handlerEnded, decompressLog>>

\* closeHandler without the test of hadError
closeHandlerAlwaysEmits ==
    /\ "close" \in onceHandlers
    /\ ~socket.closed
    /\ onceHandlers' = onceHandlers \ {"close"}
    /\ socket' = [socket EXCEPT !.destroyed = TRUE, !.writable = FALSE,
                                !.closed = TRUE]
    /\ Unregister
    /\ LET hadError == socket.errored IN
       /\ events' = Append(events, Event("close", 0, 0, <<>>, "MongoNetworkError"))
       /\ teardownLog' = Append(teardownLog, TeardownEntry("close", TRUE))
    /\ UNCHANGED <<bytesRead, sizeOfMessage, buffer, stubBuffer, destroyed,
                   pending, _id, connectionAccounting, connectionAccountingSpy,
                   wire, stream, chunks, frames, destroyCalls, callbackLog>>
    /\ UNCHANGED <<apiVars, handlerEnded, decompressLog>>

\* socket 'close' (registered with once): hadError tells whether the socket
\* reported an error before
closeHandler ==
    /\ "close" \in onceHandlers
    /\ ~socket.closed
    /\ onceHandlers' = onceHandlers \ {"close"}
    /\ socket' = [socket EXCEPT !.destroyed = TRUE, !.writable = FALSE,
                                !.closed = TRUE]
    /\ Unregister
    /\ LET hadError == socket.errored IN
       /\ events' = IF ~hadError
                    THEN Append(events, Event("close", 0, 0, <<>>, "MongoNetworkError"))
                    ELSE events
       /\ teardownLog' = Append(teardownLog, TeardownEntry("close", ~hadError))
    /\ UNCHANGED <<bytesRead, sizeOfMessage, buffer, stubBuffer, destroyed,
                   pending, _id, connectionAccounting, connectionAccountingSpy,
                   wire, stream, chunks, frames, destroyCalls, callbackLog>>
    /\ UNCHANGED <<apiVars, handlerEnded, decompressLog>>

\* Connection.isConnected()
isConnected ==
    IF destroyed THEN FALSE ELSE ~socket.destroyed /\ socket.writable

\* Connection.enableConnectionAccounting(spy)
enableConnectionAccounting(spy) ==
    /\ connectionAccountingSpy' = IF spy THEN TRUE ELSE connectionAccountingSpy
    /\ connectionAccounting' = TRUE
    /\ connections' = {}
    /\ UNCHANGED <<bytesRead, sizeOfMessage, buffer, stubBuffer, destroyed,
                   socket, onceHandlers, pending, _id, wire, stream, chunks, frames,
                   events, spyLog, destroyCalls, callbackLog>>
    /\ UNCHANGED <<apiVars, handlerEnded, decompressLog, teardownLog>>

\* Connection.disableConnectionAccounting()
disableConnectionAccounting ==
    /\ connectionAccounting' = FALSE
    /\ connectionAccountingSpy' = FALSE
    /\ UNCHANGED <<bytesRead, sizeOfMessage, buffer, stubBuffer, destroyed,
                   socket, onceHandlers, pending, _id, connections, wire,
                   stream, chunks, frames, events, spyLog, destroyCalls, callbackLog>>
    /\ UNCHANGED <<apiVars, handlerEnded, decompressLog, teardownLog>>

\* connection.ts:359-366
addConnection(id) ==
    /\ connections' = connections \cup {id}
    /\ spyLog' = IF connectionAccountingSpy
                 THEN Append(spyLog, [op |-> "addConnection", id |-> id])
                 ELSE spyLog

\* Math.round(x / 2): the nearest integer, a half rounded up
RoundHalf(x) == (x + 1) \div 2

\* typeof option === 'number' ? option : dflt; an option that was not
\* given is Null, one that was given is <<value>>
NumberOr(option, dflt) == IF option # Null THEN option[1] ELSE dflt

\* connection.ts:144: this.socketTimeout
SocketTimeoutOf(options) == NumberOr(options.socketTimeout, DefaultSocketTimeout)

\* connection.ts:148-154: this.keepAliveInitialDelay
KeepAliveInitialDelayOf(options) ==
    LET keepAliveInitialDelay ==
            NumberOr(options.keepAliveInitialDelay, DefaultKeepAliveInitialDelay)
    IN  IF keepAliveInitialDelay > SocketTimeoutOf(options)
        THEN RoundHalf(SocketTimeoutOf(options))
        ELSE keepAliveInitialDelay

\* the listeners the constructor registers on the socket it is given
SocketListeners == {"error", "timeout", "close", "data"}

\* what a constructor call did: the connection it made, or the TypeError
Constructed(options, id) ==
    [ok |-> TRUE, id |-> id, options |-> options,
     keepAliveInitialDelay |-> KeepAliveInitialDelayOf(options),
     socketTimeout |-> SocketTimeoutOf(options),
     listeners |-> SocketListeners]

ConstructionFailed(options) ==
    [ok |-> FALSE, id |-> -1, options |-> options,
     keepAliveInitialDelay |-> 0, socketTimeout |-> 0, listeners |-> {}]

\* the constructor with this.id = _id++ moved above the options.bson test
constructCountingFirst(options) ==
    /\ Len(constructLog) < MaxConstructions
    /\ _id' = _id + 1
    /\ IF ~options.bson
       THEN /\ constructLog' = Append(constructLog, ConstructionFailed(options))
            /\ UNCHANGED <<connections, spyLog>>
       ELSE /\ constructLog' = Append(constructLog, Constructed(options, _id))
            /\ IF connectionAccounting
               THEN addConnection(_id)
               ELSE UNCHANGED <<connections, spyLog>>
    /\ UNCHANGED <<bytesRead, sizeOfMessage, buffer, stubBuffer, destroyed,
                   socket, onceHandlers, pending, connectionAccounting,
                   connectionAccountingSpy, wire, stream, chunks, frames,
                   events, destroyCalls, callbackLog, written, writeLog,
                   handlerEnded, decompressLog, teardownLog>>

\* new Connection(socket, options), for another socket
construct(options) ==
    /\ Len(constructLog) < MaxConstructions
    /\ IF ~options.bson
       THEN \* throw new TypeError('must pass in valid bson parser')
            /\ constructLog' = Append(constructLog, ConstructionFailed(options))
            /\ UNCHANGED <<_id, connections, spyLog>>
       ELSE /\ _id' = _id + 1
            /\ constructLog' = Append(constructLog, Constructed(options, _id))
            /\ IF connectionAccounting
               THEN addConnection(_id)
               ELSE UNCHANGED <<connections, spyLog>>
    /\ UNCHANGED <<bytesRead, sizeOfMessage, buffer, stubBuffer, destroyed,
                   socket, onceHandlers, pending, connectionAccounting,
                   connectionAccountingSpy, wire, stream, chunks, frames,
                   events, destroyCalls, callbackLog, written, writeLog,
                   handlerEnded, decompressLog, teardownLog>>

\* the socket.write calls of write(buffer): the one buffer, or each buffer
\* of the array in order
SocketWrites(buf) ==
    IF ~buf.isArray THEN <<buf.buffers[1]>> ELSE buf.buffers

\* write() that tests this.destroyed in place of this.socket.destroyed
writeUnlessFlagged(buf) ==
    /\ Len(writeLog) < MaxWrites
    /\ IF destroyed = FALSE
       THEN /\ written' = written \o SocketWrites(buf)
            /\ writeLog' = Append(writeLog, [input |-> buf, result |-> TRUE])
       ELSE /\ written' = written
            /\ writeLog' = Append(writeLog, [input |-> buf, result |-> FALSE])
    /\ UNCHANGED <<bytesRead, sizeOfMessage, buffer, stubBuffer, destroyed,
                   socket, onceHandlers, pending, _id, connectionAccounting,
                   connectionAccountingSpy, connections, wire, stream, chunks,
                   frames, events, spyLog, destroyCalls, callbackLog,
                   constructLog, handlerEnded, decompressLog, teardownLog>>

\* Connection.write(buffer)
write(buf) ==
    /\ Len(writeLog) < MaxWrites
    /\ IF socket.destroyed = FALSE
       THEN /\ written' = written \o SocketWrites(buf)
            /\ writeLog' = Append(writeLog, [input |-> buf, result |-> TRUE])
       ELSE /\ written' = written
            /\ writeLog' = Append(writeLog, [input |-> buf, result |-> FALSE])
    /\ UNCHANGED <<bytesRead, sizeOfMessage, buffer, stubBuffer, destroyed,
                   socket, onceHandlers, pending, _id, connectionAccounting,
                   connectionAccountingSpy, connections, wire, stream, chunks,
                   frames, events, spyLog, destroyCalls, callbackLog,
                   constructLog, handlerEnded, decompressLog, teardownLog>>

\* the options the model constructs connections with: bson given or not,
\* the two timeouts given as numbers or not given
ConstructOptions ==
    [bson : BOOLEAN,
     keepAliveInitialDelay : {Null, <<1>>, <<2>>, <<3>>},
     socketTimeout : {Null, <<2>>, <<3>>}]

\* options that give bson and leave the timeouts to their defaults
PlainOptions ==
    [bson |-> TRUE, keepAliveInitialDelay |-> Null, socketTimeout |-> Null]

\* what the model writes: one buffer, an empty array, an array of two
WriteInputs ==
    {[isArray |-> FALSE, buffers |-> << <<1>> >>],
     [isArray |-> TRUE, buffers |-> <<>>],
     [isArray |-> TRUE, buffers |-> << <<1>>, <<2>> >>]}


----------------------------------------------------------------------------
\* Specifications

\* the socket hands over all the bytes that have arrived
Deliver == dataHandler(Len(wire))

\* SpecParser: one connection without accounting; the stream is cut into
\* chunks of every size
InitParser == Init /\ ~connectionAccounting

NextParser ==
    \/ \E name \in SegmentNames : ServerSend(name, MaxParserSegments)
    \/ \E n \in 1..Len(wire) : dataHandler(n)
    \/ \E p \in pending, outcome \in DecompressOutcomes : DecompressDone(p, outcome)

SpecParser == InitParser /\ [][NextParser]_vars

\* SpecChunks: one connection without accounting; every chunk is one
\* segment or several whole segments
NextChunks ==
    \/ \E name \in SegmentNames : ServerSend(name, MaxSegments)
    \/ Deliver
    \/ \E p \in pending, outcome \in DecompressOutcomes : DecompressDone(p, outcome)

SpecChunks == InitParser /\ [][NextChunks]_vars

\* Spec: the connection with its socket handlers and destroy(), accounting
\* enabled or not when it was constructed
LifecycleSegmentNames == {"Msg", "Compressed", "Negative"}

Next ==
    \/ \E name \in LifecycleSegmentNames : ServerSend(name, MaxLifecycleSegments)
    \/ Deliver
    \/ \E p \in pending, outcome \in DecompressOutcomes : DecompressDone(p, outcome)
    \/ \E force \in BOOLEAN, hasCallback \in BOOLEAN : destroy(force, hasCallback)
    \/ \E err \in BOOLEAN : endCallback(err)
    \/ errorHandler
    \/ timeoutHandler
    \/ closeHandler

Spec == Init /\ [][Next]_vars

\* SpecAccounting: the connection with its socket handlers and destroy(),
\* while accounting is enabled and disabled and further connections are
\* constructed; no data arrives
NextAccounting ==
    \/ construct(PlainOptions)
    \/ \E force \in BOOLEAN, hasCallback \in BOOLEAN : destroy(force, hasCallback)
    \/ \E err \in BOOLEAN : endCallback(err)
    \/ errorHandler
    \/ timeoutHandler
    \/ closeHandler
    \/ \E spy \in BOOLEAN : enableConnectionAccounting(spy)
    \/ disableConnectionAccounting

SpecAccounting == Init /\ [][NextAccounting]_vars

\* SpecConstruct: further connections are constructed, with and without
\* bson and with every choice of the two timeouts, while accounting is
\* enabled and disabled
NextConstruct ==
    \/ \E options \in ConstructOptions : construct(options)
    \/ \E spy \in BOOLEAN : enableConnectionAccounting(spy)
    \/ disableConnectionAccounting

SpecConstruct == Init /\ [][NextConstruct]_vars

\* SpecStream: one connection, accounting enabled or not when it was
\* constructed; the socket delivers the segments PartialChunk bytes at a
\* time, or all that has arrived
NextStream ==
    \/ \E name \in SegmentNames : ServerSend(name, MaxSegments)
    \/ \E n \in {PartialChunk, Len(wire)} : dataHandler(n)
    \/ \E p \in pending, outcome \in DecompressOutcomes : DecompressDone(p, outcome)

SpecStream == Init /\ [][NextStream]_vars

\* SpecWrite: write() is called while a message arrives in one chunk or in
\* several, the socket reports an error or closes, and destroy() is called
NextWrite ==
    \/ ServerSend("Msg", MaxLifecycleSegments)
    \/ \E n \in {PartialChunk, Len(wire)} : dataHandler(n)
    \/ \E force \in BOOLEAN : destroy(force, FALSE)
    \/ endCallback(FALSE)
    \/ errorHandler
    \/ closeHandler
    \/ \E buf \in WriteInputs : write(buf)

SpecWrite == InitParser /\ [][NextWrite]_vars

----------------------------------------------------------------------------
\* Vocabulary of the properties

\* a step is a data event exactly when it takes bytes off the wire
IsDataStep == Len(wire') < Len(wire)

\* the chunk the data event of this step was given
Chunk == SubSeq(wire, 1, Len(wire) - Len(wire'))

\* the empty parse state
ParserEmpty ==
    /\ buffer = Null
    /\ stubBuffer = Null
    /\ bytesRead = 0
    /\ sizeOfMessage = 0

\* a stub is held and no message is being accumulated
ParserStub ==
    /\ ~(bytesRead > 0 /\ sizeOfMessage > 0)
    /\ stubBuffer # Null

\* a frame by its length alone: longer than its prefix, no longer than the
\* maximum, and as long as its prefix says
ValidFrame(b) ==
    /\ Len(b) > 4
    /\ Len(b) <= maxBsonMessageSize
    /\ ReadInt32LE(b, 0) = Len(b)

\* a complete message: a valid frame that holds the 16-byte header and,
\* when its opCode is OP_COMPRESSED, the 9 bytes of the compression header
CompleteMessage(b) ==
    /\ ValidFrame(b)
    /\ Len(b) >= MESSAGE_HEADER_SIZE
    /\ parseHeader(b).opCode = OP_COMPRESSED => Len(b) >= MESSAGE_HEADER_SIZE + 9

\* a length prefix the parser must reject
InvalidLength(size) == size < 0 \/ size <= 4 \/ size > maxBsonMessageSize

ParseErrors == {i \in DOMAIN events : events[i].type = "parseError"}
Messages == {i \in DOMAIN events : events[i].type = "message"}

\* the step emitted exactly one parseError and handed over no frame
OneParseErrorNoMessage ==
    /\ Len(events') = Len(events) + 1
    /\ events'[Len(events')].type = "parseError"
    /\ SubSeq(events', 1, Len(events)) = events
    /\ frames' = frames
    /\ pending' = pending

----------------------------------------------------------------------------
\* C1 (arbitrary fragmentation): when the server has sent one valid frame B
\* and every byte of it has been delivered, in chunks of whatever sizes, the
\* data handler has handed exactly B to processMessage, once, and has
\* emitted no parseError.
C1_ArbitraryFragmentation ==
    \A name \in SegmentNames :
        (stream = <<name>> /\ ValidFrame(Segment(name)) /\ wire = <<>>)
            => (frames = <<Segment(name)>> /\ ParseErrors = {})

\* C2 (frame length): every buffer handed to processMessage is as long as
\* the little-endian int32 in its first four bytes says.
C2_FrameLengthMatchesPrefix ==
    \A i \in DOMAIN frames :
        Len(frames[i]) >= 4 /\ ReadInt32LE(frames[i], 0) = Len(frames[i])

\* C3 (stub extension): a data event that finds a stub held, with stub plus
\* chunk still shorter than a length prefix, leaves stub plus chunk as the
\* new stub.
C3_StubExtension ==
    [][(IsDataStep /\ ParserStub /\ Len(stubBuffer) + Len(Chunk) < 4)
          => stubBuffer' = stubBuffer \o Chunk]_vars

\* C4 (multi-frame chunk): a data event that finds the parser empty and is
\* given one chunk made of two complete messages B1 and B2 hands B1 and then
\* B2 to processMessage, emits no parseError, and leaves the parser empty.
C4_MultiFrameChunk ==
    [][\A k \in 1..Len(wire) :
          LET B1 == SubSeq(Chunk, 1, k)
              B2 == SubSeq(Chunk, k + 1, Len(Chunk))
          IN  (IsDataStep /\ ParserEmpty /\ k < Len(Chunk)
                  /\ CompleteMessage(B1) /\ CompleteMessage(B2))
              => /\ frames' = frames \o <<B1, B2>>
                 /\ \A i \in DOMAIN events' :
                        i > Len(events) => events'[i].type # "parseError"
                 /\ ParserEmpty']_vars

\* C4, the case: the server sent Reply and Msg, the socket delivered them as
\* the first and only chunk, and both messages were emitted in order
C4_Witness ==
    /\ stream = <<"Reply", "Msg">>
    /\ chunks = 1
    /\ wire = <<>>
    /\ frames = <<Segment("Reply"), Segment("Msg")>>
    /\ Len(events) = 2
    /\ events[1].seq = 1 /\ events[1].type = "message"
    /\ events[2].seq = 2 /\ events[2].type = "message"
    /\ ParserEmpty

C6_ArrivalOrder ==
    \A i \in Messages, j \in Messages :
        i < j => events[i].seq < events[j].seq

\* C7 (decompression after destroy): a decompress callback that runs on a
\* connection whose destroyed flag is set emits nothing.
C7_NoEmitAfterDestroy ==
    [][(destroyed /\ pending' # pending /\ pending' \subseteq pending)
          => events' = events]_vars

\* C8 (destroyed is terminal for parsing): after destroy() has been called,
\* a data event changes neither the parse state nor what was emitted.
C8_NoParsingAfterDestroy ==
    [][(destroyCalls > 0 /\ IsDataStep)
          => (UNCHANGED parseVars /\ events' = events /\ frames' = frames)]_vars

\* C9 (transport notifications destroy): after the error, timeout or close
\* handler has run, the destroyed flag is set and isConnected() is false.
C9_HandlersDestroy ==
    [][onceHandlers' # onceHandlers => (destroyed' /\ ~isConnected')]_vars

\* C10 (idempotent destroy): a destroy() call that is not the first one
\* makes no further call on the socket and no further report to the
\* accounting spy.
C10_IdempotentDestroy ==
    [][(destroyCalls >= 1 /\ destroyCalls' = destroyCalls + 1)
          => /\ socket'.destroyCalls + socket'.endCalls
                    = socket.destroyCalls + socket.endCalls
             /\ spyLog' = spyLog]_vars

\* C11 (destroy unregisters): when destroy() returns, whatever calls of
\* enableConnectionAccounting and disableConnectionAccounting, constructions
\* and socket events came before, Connection.connections() has no entry
\* for the connection's id.
C11_DestroyUnregisters ==
    [][destroyCalls' = destroyCalls + 1 => ConnId \notin connections']_vars

\* C12 (keep-alive cap): every constructed connection has
\* keepAliveInitialDelay = min(d, socketTimeout / 2), where d is the
\* requested keepAliveInitialDelay or its default and socketTimeout the
\* requested socketTimeout or its default (stated on the doubles).
C12_KeepAliveCap ==
    \A i \in DOMAIN constructLog :
        LET c == constructLog[i]
            d == NumberOr(c.options.keepAliveInitialDelay,
                          DefaultKeepAliveInitialDelay)
            t == NumberOr(c.options.socketTimeout, DefaultSocketTimeout)
        IN  c.ok => 2 * c.keepAliveInitialDelay = Min(2 * d, t)

\* C15 (construction without bson): a constructor call without options.bson
\* fails and leaves the shared state as it was: the id counter, the
\* registry and what its spy was told are unchanged, and no listener is
\* registered on the socket.  A call that succeeds gets an id above the id
\* of every connection constructed before it.
C15_FailedConstruction ==
    [][Len(constructLog') = Len(constructLog) + 1
          => LET c == constructLog'[Len(constructLog')] IN
             /\ ~c.options.bson
                   => /\ ~c.ok
                      /\ _id' = _id
                      /\ connections' = connections
                      /\ spyLog' = spyLog
                      /\ c.listeners = {}
             /\ c.options.bson
                   => /\ c.ok
                      /\ c.id > ConnId
                      /\ \A j \in DOMAIN constructLog :
                             constructLog[j].ok => constructLog[j].id < c.id]_vars

\* C15, the case: with accounting enabled and a spy installed, a
\* construction without bson failed and the next one, with bson, got the
\* id that follows the first connection's
C15_Witness ==
    /\ Len(constructLog) = 2
    /\ ~constructLog[1].ok
    /\ constructLog[2].ok /\ constructLog[2].id = ConnId + 1
    /\ connections = {ConnId, ConnId + 1}
    /\ spyLog = <<[op |-> "addConnection", id |-> ConnId],
                  [op |-> "addConnection", id |-> ConnId + 1]>>
    /\ _id = ConnId + 2

\* C13 (compressed round trip): the callback of decompress, run for a frame
\* whose opCode is OP_COMPRESSED, emits exactly one notification: a message
\* with opCode = originalOpCode and the decompressed bytes as its body when
\* it is given a body as long as uncompressedSize says, and otherwise (an
\* error, or a body of another length) an error.  Nothing else is ever
\* emitted for that frame.
C13_CompressedRoundTrip ==
    [][Len(decompressLog') = Len(decompressLog) + 1
          => LET d == decompressLog'[Len(decompressLog')]
                 frame == frames[d.seq]
                 originalOpCode == ReadInt32LE(frame, MESSAGE_HEADER_SIZE)
                 uncompressedSize == ReadInt32LE(frame, MESSAGE_HEADER_SIZE + 4)
                 e == events'[Len(events')]
             IN  /\ parseHeader(frame).opCode = OP_COMPRESSED
                 /\ events' = Append(events, e)
                 /\ e.seq = d.seq
                 /\ {i \in DOMAIN events' : events'[i].seq = d.seq} = {Len(events')}
                 /\ IF ~d.outcome.err /\ Len(d.outcome.body) = uncompressedSize
                    THEN /\ e.type = "message"
                         /\ e.opCode = originalOpCode
                         /\ e.body = d.outcome.body
                    ELSE e.type = "error"]_vars

\* C13, the case: two compressed frames arrived; the first was decompressed
\* to a body of the declared length and emitted as a message, the second
\* to a longer body and reported as an error
C13_Witness ==
    /\ stream = <<"Compressed", "Compressed">>
    /\ Len(decompressLog) = 2
    /\ decompressLog[1] = [seq |-> 1, outcome |-> [err |-> FALSE, body |-> <<42>>]]
    /\ decompressLog[2] = [seq |-> 2, outcome |-> [err |-> FALSE, body |-> <<42, 43>>]]
    /\ Len(events) = 2
    /\ events[1].type = "message" /\ events[1].opCode = OP_MSG
    /\ events[1].body = <<42>>
    /\ events[2].type = "error" /\ events[2].seq = 2

\* C14 (write): a write() call on a connection whose socket is destroyed
\* returns false and writes nothing to the socket; any other call hands the
\* one buffer, or each buffer of the array in the array's order, to
\* socket.write and returns true.  No call changes the parse state or the
\* destroyed flag.
C14_Write ==
    [][Len(writeLog') = Len(writeLog) + 1
          => LET w == writeLog'[Len(writeLog')] IN
             /\ IF socket.destroyed # FALSE
                THEN w.result = FALSE /\ written' = written
                ELSE /\ w.result = TRUE
                     /\ written' = written \o
                            (IF w.input.isArray THEN w.input.buffers
                                                ELSE <<w.input.buffers[1]>>)
             /\ UNCHANGED parseVars
             /\ destroyed' = destroyed]_vars

\* C14, the cases: an array of two buffers was written in order while a
\* message was being accumulated
C14_Witness ==
    /\ bytesRead > 0
    /\ Len(writeLog) = 1
    /\ writeLog[1].input.isArray /\ writeLog[1].result = TRUE
    /\ written = << <<1>>, <<2>> >>
    /\ ~socket.destroyed

\* C16 (parse state invariant): after every data event, at most one of the
\* stub buffer and the accumulating buffer is held; the accumulating buffer
\* is held exactly when bytesRead > 0 and sizeOfMessage > 0; and then
\* 0 <= bytesRead <= sizeOfMessage and the buffer is sizeOfMessage bytes.
C16_ParseStateInvariant ==
    /\ ~(stubBuffer # Null /\ buffer # Null)
    /\ buffer # Null <=> (bytesRead > 0 /\ sizeOfMessage > 0)
    /\ (bytesRead > 0 /\ sizeOfMessage > 0)
           => /\ 0 <= bytesRead
              /\ bytesRead <= sizeOfMessage
              /\ Len(buffer) = sizeOfMessage

\* C16, the case: after two data events a message is being accumulated,
\* part of it read, in a buffer of the size its length prefix gives
C16_Witness ==
    /\ chunks = 2
    /\ bytesRead = 2 * PartialChunk
    /\ sizeOfMessage > bytesRead
    /\ Len(buffer) = sizeOfMessage
    /\ stubBuffer = Null

IterationProgress(st, data, r) ==
    \/ Len(r.data) < Len(data)
    \/ /\ st.stubBuffer # Null
       /\ r.st.stubBuffer = Null
       /\ r.data = st.stubBuffer \o data
    \/ /\ r.stop
       /\ r.st.out # <<>>
       /\ r.st.out[Len(r.st.out)].kind = "parseError"

\* every iteration of the loop run on `data` from parse state `st` makes
\* progress, up to the iteration that leaves no data or leaves the handler
RECURSIVE LoopProgresses(_, _)
LoopProgresses(st, data) ==
    IF Len(data) = 0
    THEN TRUE
    ELSE LET r == ParseStep(st, data) IN
         /\ IterationProgress(st, data, r)
         /\ (r.stop \/ LoopProgresses(r.st, r.data))

\* C18 (termination): on every chunk, from every parse state the connection
\* reaches, the data handler comes to its end, and each iteration of its
\* loop makes progress until no data of the chunk is left or the handler
\* is left.
C18_HandlerTerminates ==
    [][IsDataStep
          => /\ handlerEnded'
             /\ LoopProgresses(ParseStateOf(buffer, bytesRead, sizeOfMessage,
                                            stubBuffer), Chunk)]_vars

\* C18, the case: the four bytes of a negative length prefix were held as
\* the stub; the next chunk, a whole message, was merged with it and the
\* handler returned on the parseError
C18_Witness ==
    /\ stream = <<"NegativePrefix", "Reply">>
    /\ chunks = 2
    /\ wire = <<>>
    /\ handlerEnded
    /\ Len(events) = 1 /\ events[1].type = "parseError"
    /\ ParserEmpty

\* the notifications a step emitted
Emitted == SubSeq(events', Len(events) + 1, Len(events'))

\* the step emitted a parseError
EmitsParseError ==
    \E i \in DOMAIN Emitted : Emitted[i].type = "parseError"

\* the step is a decompress callback that reported an error
EmitsDecodeError ==
    /\ Len(decompressLog') = Len(decompressLog) + 1
    /\ \E i \in DOMAIN Emitted : Emitted[i].type = "error"

\* a parseError or a decompression error has been emitted
ErrorReported ==
    \E i \in DOMAIN events :
        \/ events[i].type = "parseError"
        \/ events[i].type = "error" /\ events[i].detail \in {"decompress", "MongoError"}

\* C19 (non-fatal errors): a step that emits a parseError, or in which a
\* decompression fails or yields a body of the wrong length, leaves the
\* destroyed flag, the registry and the socket as they were; the parseError
\* leaves the parser empty and the decompression error leaves the parse
\* state alone; and once such an error has been reported, a chunk that is
\* one well-formed, uncompressed message and finds the parser empty is
\* emitted as a message.
C19_ErrorsNotFatal ==
    [][/\ (EmitsParseError \/ EmitsDecodeError)
          => /\ destroyed' = destroyed
             /\ connections' = connections
             /\ socket' = socket
       /\ EmitsParseError => ParserEmpty'
       /\ EmitsDecodeError => UNCHANGED parseVars
       /\ (IsDataStep /\ ErrorReported /\ ParserEmpty /\ CompleteMessage(Chunk)
              /\ parseHeader(Chunk).opCode # OP_COMPRESSED)
          => /\ Len(events') = Len(events) + 1
             /\ Emitted[1].type = "message"
             /\ Emitted[1].opCode = parseHeader(Chunk).opCode
             /\ Emitted[1].body = Slice(Chunk, MESSAGE_HEADER_SIZE, Len(Chunk))]_vars

\* C19, the case: on a registered connection a chunk with a negative length
\* was rejected, and the Reply message of the next chunk was emitted; the
\* connection is registered, not destroyed, its socket open
C19_Witness ==
    /\ stream = <<"Negative", "Reply">>
    /\ wire = <<>>
    /\ Len(events) = 2
    /\ events[1].type = "parseError"
    /\ events[2].type = "message" /\ events[2].opCode = OP_REPLY
    /\ connections = {ConnId}
    /\ ~destroyed
    /\ ~socket.destroyed /\ socket.writable

\* C20 (teardown notifications): a socket close with no error before it
\* emits one close notification that carries a network error, and a close
\* with hadError emits none; no connection ever emits two close
\* notifications; each of the error, timeout and close handlers runs at
\* most once; and with accounting enabled a handler has removed the
\* connection's id from the registry when it comes to emitting.
C20_TeardownNotifications ==
    [][Len(teardownLog') = Len(teardownLog) + 1
          => LET t == teardownLog'[Len(teardownLog')] IN
             /\ \A i \in DOMAIN teardownLog : teardownLog[i].handler # t.handler
             /\ connectionAccounting => (~t.registered /\ ConnId \notin connections')
             /\ (t.handler = "close" /\ ~socket.errored)
                   => events' = Append(events,
                                      Event("close", 0, 0, <<>>, "MongoNetworkError"))
             /\ (t.handler = "close" /\ socket.errored) => events' = events
             /\ Cardinality({i \in DOMAIN events' : events'[i].type = "close"}) <= 1]_vars

\* C20, the case: with accounting enabled and a spy installed, the socket
\* reported an error and then closed with hadError: one error notification,
\* no close notification, and the id out of the registry
C20_Witness ==
    /\ connectionAccounting /\ connectionAccountingSpy
    /\ Len(teardownLog) = 2
    /\ teardownLog[1] = [handler |-> "error", emitted |-> TRUE, registered |-> FALSE]
    /\ teardownLog[2] = [handler |-> "close", emitted |-> FALSE, registered |-> FALSE]
    /\ Len(events) = 1 /\ events[1].type = "error"
    /\ connections = {}

\* the calls the data handler of this step made, in order: frames handed to
\* processMessage and parseErrors emitted
HandlerCalls ==
    ParseLoop(ParseStateOf(buffer, bytesRead, sizeOfMessage, stubBuffer),
              Chunk).out

\* C21 (a parse error ends the chunk): a data event emits at most one
\* parseError; the parseError is the last thing its handler does, so that
\* no byte after the rejected length prefix is handed to processMessage or
\* emitted as a message, and none is kept: the stub and the accumulating
\* buffer are empty after it.
C21_ParseErrorEndsChunk ==
    [][IsDataStep
          => /\ Cardinality({i \in DOMAIN Emitted :
                                Emitted[i].type = "parseError"}) <= 1
             /\ \A i \in DOMAIN Emitted :
                    Emitted[i].type = "parseError" => i = Len(Emitted)
             /\ \A i \in DOMAIN HandlerCalls :
                    HandlerCalls[i].kind = "parseError" => i = Len(HandlerCalls)
             /\ EmitsParseError
                   => /\ ParserEmpty'
                      /\ Len(frames') - Len(frames) = Len(HandlerCalls) - 1]_vars

\* C21, the case: a chunk with a negative length prefix and, right after
\* it, a whole Reply message came as one data event: one parseError, no
\* frame, no message, nothing held
C21_Witness ==
    /\ stream = <<"Negative", "Reply">>
    /\ chunks = 1
    /\ wire = <<>>
    /\ Len(events) = 1 /\ events[1].type = "parseError"
    /\ frames = <<>>
    /\ pending = {}
    /\ ParserEmpty

====
